---- MODULE Spec2Model ----
(***************************************************************************)
(* Build side of the partitioned hash join:                                *)
(* be/src/exec/partitioned-hash-join-builder-ir.cc                         *)
(*                                                                         *)
(* PhjBuilder::AppendRow, PhjBuilder::ProcessBuildBatch and                *)
(* PhjBuilder::Partition::InsertBatch are modelled step by step (Spec for  *)
(* the ingest of build batches, SpecInsert for the build of one            *)
(* partition's hash table).  A row is identified by its position in the    *)
(* sequence of                                                             *)
(* all rows handed to the builder (the model's TupleRow pointer); streams  *)
(* hold these identifiers.  A 32-bit hash is the pair of its 16-bit halves *)
(* [hi, lo], so that the full width is kept without leaving TLC's integer  *)
(* range.                                                                  *)
(***************************************************************************)
EXTENDS Integers, Sequences, FiniteSets, TLC

\* ------------------------------------------------------------------ bounds
MaxRows == 3
MaxBatchLen == 2
NumFilters == 2
MaxInsertRows == 4
MaxCapacity == 3

\* --------------------------------------------------------------- constants
NUM_PARTITIONING_BITS == 2
DefaultHashSeed == 1234

Pow2(n) == 2 ^ n
Half == Pow2(16)
Levels == {0, 1}
NumPartitions == Pow2(NUM_PARTITIONING_BITS)
PartitionIds == 0 .. (NumPartitions - 1)
FilterIds == 1 .. NumFilters

\* Build rows: the join key (or NULL) and the column the filter expressions read.
RowKinds ==
  { [null |-> FALSE, key |-> 1, col |-> 10],
    [null |-> FALSE, key |-> 2, col |-> 20],
    [null |-> TRUE,  key |-> 0, col |-> 30] }

Batches == UNION { [1 .. n -> RowKinds] : n \in 0 .. MaxBatchLen }

OK == "OK"
AddRowOutcomes == {"appended", "page_full", "hard_error"}
StreamFullOutcomes == {"appended", "error"}

VARIABLES
  null_aware,        \* null_aware_partition_ != NULL
  has_bloom,         \* has_bloom[f]: filters_[f].local_bloom_filter != NULL
  level,             \* ctx->level()
  input,             \* every row handed to ProcessBuildBatch so far, in order
  base,              \* number of rows handed in before the current batch
  build_filters,     \* argument of the current call
  i,                 \* rows of the current batch the loop has finished with
  pc,                \* position in ProcessBuildBatch
  cur_hash,          \* expr_vals_cache->CurExprValuesHash()
  build_rows,        \* hash_partitions_[p]->build_rows()
  null_rows,         \* null_aware_partition_->build_rows()
  bloom,             \* bloom[f]: hashes held by filters_[f].local_bloom_filter
  result,            \* Status returned by the last call ("none" while running)
  evalLog,           \* rows passed to EvalAndHashBuild, in call order
  insertLog,         \* insertLog[f]: rows whose hash was passed to bloom Insert
  appendLog,         \* the last AppendRow call: row, status, calls it made
  dchecks,           \* the build keeps DCHECKs (debug) or compiles them out (release)
  hash_tbl,          \* hash_tbl[p]: hash_partitions_[p]->hash_tbl_
  null_hash_tbl,     \* null_aware_partition_->hash_tbl_
  \* Partition::InsertBatch
  prefetch_mode,     \* argument: "NONE" or "HT_BUCKET"
  prefetch_size,     \* expr_vals_cache->capacity()
  ht_capacity,       \* entries hash_tbl_ takes before Insert fails
  insert_batch,      \* argument batch: rows read back from the partition's stream
  indices,           \* argument indices: the RowIdx of each row of the batch
  insert_pc,         \* position in InsertBatch
  prefetch_group_row,
  cur_row,
  batch_iter,        \* row the current FOREACH_ROW_LIMIT iterator stands at
  expr_vals_cache,   \* ht_ctx->expr_values_cache()
  insert_ret,        \* value InsertBatch returned ("none" before it returns)
  insert_log         \* calls InsertBatch made on the cache and the hash table

build_vars == << null_aware, has_bloom, level, input, base, build_filters, i,
                 pc, cur_hash, build_rows, null_rows, bloom, result, evalLog,
                 insertLog, appendLog, dchecks >>

insert_vars == << prefetch_mode, prefetch_size, ht_capacity, insert_batch, indices,
                  insert_pc, prefetch_group_row, cur_row, batch_iter,
                  expr_vals_cache, insert_ret, insert_log >>

vars == << build_vars, hash_tbl, null_hash_tbl, insert_vars >>

\* ---------------------------------------------------------- 32-bit hashes
Hash32(hi, lo) == [hi |-> hi, lo |-> lo]

\* h >> n for a 32-bit h, 16 <= n <= 32
ShiftRight(h, n) == h.hi \div Pow2(n - 16)

\* HashTableCtx::HashRow on the evaluated join key
HashRow(key) == Hash32((key * 40503) % Half, (key * 2654 + 1) % Half)

\* FilterContext::expr->GetValue(row) for filters_[f]
FilterExprValue(f, row) == row.col + f

\* RawValue::GetHashValue(e, type, seed)
GetHashValue(e, seed) == Hash32((e * 31 + seed) % Half, (e * 17 + 3 * seed) % Half)

\* HashTableCtx::EvalAndHashBuild: false on a NULL key, else the hash is cached
EvalAndHashBuild(row, cached) ==
  IF row.null THEN [ok |-> FALSE, hash |-> cached]
  ELSE [ok |-> TRUE, hash |-> HashRow(row.key)]

\* BloomFilter::Insert
BloomInsert(filter, h) == filter \cup {h}

\* ------------------------------------------------ BufferedTupleStream
\* BufferedTupleStream::AddRow(row, &status): true and appended, or false with
\* status OK (the page is full) or false with an error status.
AddRow(stream, row, outcome) ==
  CASE outcome = "appended" ->
         [ret |-> TRUE, status |-> OK, stream |-> Append(stream, row)]
    [] outcome = "page_full" ->
         [ret |-> FALSE, status |-> OK, stream |-> stream]
    [] OTHER ->
         [ret |-> FALSE, status |-> "IoError", stream |-> stream]

\* PhjBuilder::AppendRowStreamFull(stream, row): appends after making room, or fails
AppendRowStreamFull(stream, row, outcome) ==
  IF outcome = "appended"
  THEN [status |-> OK, stream |-> Append(stream, row)]
  ELSE [status |-> "MemLimitExceeded", stream |-> stream]

Call(fn, ret, status) == [fn |-> fn, ret |-> ret, status |-> status]

\* AppendRow that takes a full page for a finished append
AppendRow_NoSlowPath(stream, row, fast, slow) ==
  LET a == AddRow(stream, row, fast)
  IN  [status |-> a.status, stream |-> a.stream,
       calls |-> << Call("AddRow", a.ret, a.status) >>]

\* AppendRow that reports a full page to its caller
AppendRow_SurfacesPageFull(stream, row, fast, slow) ==
  LET a == AddRow(stream, row, fast)
  IN  [status |-> IF a.ret THEN OK
                  ELSE IF a.status # OK THEN a.status ELSE "StreamFull",
       stream |-> a.stream,
       calls |-> << Call("AddRow", a.ret, a.status) >>]

\* AppendRow without the RETURN_IF_ERROR(status) between the two paths
AppendRow_NoStatusCheck(stream, row, fast, slow) ==
  LET a == AddRow(stream, row, fast)
      first == << Call("AddRow", a.ret, a.status) >>
  IN  IF a.ret
      THEN [status |-> OK, stream |-> a.stream, calls |-> first]
      ELSE LET b == AppendRowStreamFull(a.stream, row, slow)
           IN  [status |-> b.status, stream |-> b.stream,
                calls |-> Append(first,
                                 Call("AppendRowStreamFull", b.status = OK, b.status))]

\* AppendRow that goes on to the slow path after a successful fast append
AppendRow_FallsThrough(stream, row, fast, slow) ==
  LET a == AddRow(stream, row, fast)
      first == << Call("AddRow", a.ret, a.status) >>
  IN  IF ~a.ret /\ a.status # OK
      THEN [status |-> a.status, stream |-> a.stream, calls |-> first]
      ELSE LET b == AppendRowStreamFull(a.stream, row, slow)
           IN  [status |-> b.status, stream |-> b.stream,
                calls |-> Append(first,
                                 Call("AppendRowStreamFull", b.status = OK, b.status))]

\* Partition::hash_tbl_: absent until the table is built, then its entries
NoTable == [present |-> FALSE, entries |-> << >>]
EmptyTable == [present |-> TRUE, entries |-> << >>]

\* The Partition object: its stream and its hash table
Partition(stream, tbl) == [build_rows |-> stream, hash_tbl |-> tbl]

\* an append that also starts the partition's hash table
PartitionAfterAppend_BuildsTable(part, stream) ==
  [build_rows |-> stream, hash_tbl |-> EmptyTable]

\* partition->build_rows() is what AppendRow is handed: of the Partition only
\* the stream changes
PartitionAfterAppend(part, stream) == [part EXCEPT !.build_rows = stream]

\* PhjBuilder::AppendRow
AppendRow(stream, row, fast, slow) ==
  LET a == AddRow(stream, row, fast)
      first == << Call("AddRow", a.ret, a.status) >>
  IN  IF a.ret
      THEN [status |-> OK, stream |-> a.stream, calls |-> first]
      ELSE IF a.status # OK
      THEN [status |-> a.status, stream |-> a.stream, calls |-> first]
      ELSE LET b == AppendRowStreamFull(a.stream, row, slow)
           IN  [status |-> b.status, stream |-> b.stream,
                calls |-> Append(first,
                                 Call("AppendRowStreamFull", b.status = OK, b.status))]

\* ------------------------------------------------- ExprValuesCache
\* A cache of `capacity` slots; each holds a row's hash and NULL flag.  w and r
\* are the write and the read cursor.  `row` remembers which batch row filled a
\* slot (-1: none).
Slots(capacity) == 0 .. (capacity - 1)
NewCache(capacity) ==
  [w |-> 0, r |-> 0, reading |-> FALSE,
   hash |-> [sl \in Slots(capacity) |-> Hash32(0, 0)],
   null |-> [sl \in Slots(capacity) |-> FALSE],
   row |-> [sl \in Slots(capacity) |-> 0 - 1]]

\* slot the cache stands at
CurSlot(c) == IF c.reading THEN c.r ELSE c.w

\* ExprValuesCache::Reset
CacheReset(c) ==
  [c EXCEPT !.w = 0, !.r = 0, !.reading = FALSE,
            !.null = [sl \in DOMAIN c.null |-> FALSE]]

\* ExprValuesCache::ResetForRead
CacheResetForRead(c) == [c EXCEPT !.r = 0, !.reading = TRUE]

\* ExprValuesCache::NextRow
CacheNextRow(c) == IF c.reading THEN [c EXCEPT !.r = @ + 1] ELSE [c EXCEPT !.w = @ + 1]

\* ExprValuesCache::SetRowNull
CacheSetRowNull(c) == [c EXCEPT !.null[CurSlot(c)] = TRUE]

\* ExprValuesCache::IsRowNull
CacheIsRowNull(c) == c.null[CurSlot(c)]

\* ExprValuesCache::CurExprValuesHash
CurExprValuesHash(c) == c.hash[CurSlot(c)]

\* HashTableCtx::EvalAndHashBuild on the cache's current slot, for batch row k
CacheEvalAndHashBuild(c, row, k) ==
  LET ev == EvalAndHashBuild(row, CurExprValuesHash(c))
  IN  [ok |-> ev.ok,
       cache |-> [c EXCEPT !.hash[CurSlot(c)] = ev.hash, !.row[CurSlot(c)] = k]]

\* ------------------------------------------------------- HashTable
\* HashTable::Insert(ht_ctx, row_idx, row): fails when the table cannot grow
HashTableInsert(tbl, hash, row_idx, capacity) ==
  IF Len(tbl.entries) < capacity
  THEN [ok |-> TRUE,
        tbl |-> [tbl EXCEPT !.entries = Append(@, [hash |-> hash, idx |-> row_idx])]]
  ELSE [ok |-> FALSE, tbl |-> tbl]

\* ------------------------------------------------- ProcessBuildBatch
\* an iterator that walks the batch from its last row
BatchIterGet_Backwards(first, n, k) == first + n - k

\* build_batch_iter.Get() at iteration i of FOREACH_ROW(build_batch, 0, ...)
BatchIterGet(first, n, k) == first + k + 1

BatchLen == Len(input) - base
build_row == BatchIterGet(base, BatchLen, i)

\* the status of AppendRow is dropped
ReturnIfError_Ignored(status) == FALSE

\* RETURN_IF_ERROR(AppendRow(...)) in ProcessBuildBatch: does the call return here
ReturnIfError(status) == status # OK

\* the NULL-key branch appends whatever the configuration
HasNullAwarePartition_Always(na) == TRUE

\* if (null_aware_partition_ != NULL)
HasNullAwarePartition(na) == na

\* filters are built whatever the argument
BuildFiltersEnabled_Always(bf) == TRUE

\* if (build_filters)
BuildFiltersEnabled(bf) == bf

\* the NULL-key test is lost: every row goes on to the filters
AfterEval_NoNullGate(ok) == "filters"

\* a row with a key goes straight to its partition, past the filter block
AfterEval_SkipsFilters(ok) == IF ok THEN "route" ELSE "null"

\* if (!ctx->EvalAndHashBuild(build_row)) ... continue; : where the row goes next
AfterEval(ok) == IF ok THEN "filters" ELSE "null"

\* the partition is taken from the low bits of the hash
PartitionIdx_LowBits(hash) == hash.lo % Pow2(NUM_PARTITIONING_BITS)

\* hash >> (32 - NUM_PARTITIONING_BITS)
PartitionIdx(hash) == ShiftRight(hash, 32 - NUM_PARTITIONING_BITS)

\* the filter loop stops at the first FilterContext without a bloom filter
RECURSIVE FilterLoop_Break(_, _, _, _)
FilterLoop_Break(f, row, bl, log) ==
  IF f > NumFilters THEN [bloom |-> bl, log |-> log]
  ELSE IF ~has_bloom[f] THEN [bloom |-> bl, log |-> log]
  ELSE LET e == FilterExprValue(f, input[row])
           filter_hash == GetHashValue(e, DefaultHashSeed)
       IN  FilterLoop_Break(f + 1, row,
                            [bl EXCEPT ![f] = BloomInsert(@, filter_hash)],
                            [log EXCEPT ![f] = Append(@, row)])

\* for (const FilterContext& ctx : filters_), from filter f on: the bloom
\* filters and the log of Insert calls after the loop
RECURSIVE FilterLoop(_, _, _, _)
FilterLoop(f, row, bl, log) ==
  IF f > NumFilters THEN [bloom |-> bl, log |-> log]
  ELSE IF ~has_bloom[f] THEN FilterLoop(f + 1, row, bl, log)
  ELSE LET e == FilterExprValue(f, input[row])
           filter_hash == GetHashValue(e, DefaultHashSeed)
       IN  FilterLoop(f + 1, row,
                      [bl EXCEPT ![f] = BloomInsert(@, filter_hash)],
                      [log EXCEPT ![f] = Append(@, row)])

\* InsertBatch is not running: the state it works on, before any call
InsertIdle ==
  /\ prefetch_mode = "NONE"
  /\ prefetch_size = 1
  /\ ht_capacity = 0
  /\ insert_batch = << >>
  /\ indices = << >>
  /\ insert_pc = "idle"
  /\ prefetch_group_row = 0
  /\ cur_row = 0
  /\ batch_iter = 0
  /\ expr_vals_cache = NewCache(1)
  /\ insert_ret = "none"
  /\ insert_log = << >>

Init ==
  /\ null_aware \in BOOLEAN
  /\ has_bloom \in [FilterIds -> BOOLEAN]
  /\ level \in Levels
  /\ input = << >>
  /\ base = 0
  /\ build_filters = FALSE
  /\ i = 0
  /\ pc = "idle"
  /\ cur_hash = Hash32(0, 0)
  /\ build_rows = [p \in PartitionIds |-> << >>]
  /\ null_rows = << >>
  /\ bloom = [f \in FilterIds |-> {}]
  /\ result = "none"
  /\ evalLog = << >>
  /\ insertLog = [f \in FilterIds |-> << >>]
  /\ appendLog = [row |-> 0, status |-> OK, calls |-> << >>]
  /\ dchecks \in IF level = 0 THEN {TRUE} ELSE BOOLEAN
  /\ hash_tbl = [p \in PartitionIds |-> NoTable]
  /\ null_hash_tbl = NoTable
  /\ InsertIdle

config == << null_aware, has_bloom, level, dchecks, insert_vars >>

\* Entry of ProcessBuildBatch(build_batch, ctx, build_filters): the cache is reset.
\* The operator is torn down after an error, so no call follows one.
ProcessBuildBatch(batch, bf) ==
  /\ pc = "idle"
  /\ result \in {"none", OK}
  /\ Len(input) + Len(batch) <= MaxRows
  /\ input' = input \o batch
  /\ base' = Len(input)
  /\ build_filters' = bf
  /\ i' = 0
  /\ pc' = "loop"
  /\ result' = "none"
  /\ UNCHANGED << config, cur_hash, build_rows, null_rows, bloom, evalLog,
                  insertLog, appendLog, hash_tbl, null_hash_tbl >>

\* FOREACH_ROW has a next row: evaluate and hash its join key
EvalRow ==
  /\ pc = "loop"
  /\ i < BatchLen
  /\ LET ev == EvalAndHashBuild(input[build_row], cur_hash)
     IN  /\ cur_hash' = ev.hash
         /\ pc' = AfterEval(ev.ok)
  /\ evalLog' = Append(evalLog, build_row)
  /\ UNCHANGED << config, input, base, build_filters, i, build_rows, null_rows,
                  bloom, result, insertLog, appendLog, hash_tbl, null_hash_tbl >>

\* FOREACH_ROW is exhausted: return Status::OK()
ReturnOK ==
  /\ pc = "loop"
  /\ i >= BatchLen
  /\ pc' = "idle"
  /\ result' = OK
  /\ UNCHANGED << config, input, base, build_filters, i, cur_hash, build_rows,
                  null_rows, bloom, evalLog, insertLog, appendLog, hash_tbl,
                  null_hash_tbl >>

\* The NULL-key branch: append to the null-aware partition if there is one; continue
NullKeyRow ==
  /\ pc = "null"
  /\ IF HasNullAwarePartition(null_aware)
     THEN \E fast \in AddRowOutcomes, slow \in StreamFullOutcomes :
            LET a == AppendRow(null_rows, build_row, fast, slow)
                part == PartitionAfterAppend(Partition(null_rows, null_hash_tbl),
                                             a.stream)
            IN  /\ null_rows' = part.build_rows
                /\ null_hash_tbl' = part.hash_tbl
                /\ appendLog' = [row |-> build_row, status |-> a.status,
                                 calls |-> a.calls]
                /\ IF ReturnIfError(a.status)
                   THEN /\ pc' = "idle" /\ result' = a.status /\ i' = i
                   ELSE /\ pc' = "loop" /\ result' = result /\ i' = i + 1
     ELSE /\ pc' = "loop"
          /\ i' = i + 1
          /\ UNCHANGED << null_rows, null_hash_tbl, appendLog, result >>
  /\ UNCHANGED << config, input, base, build_filters, cur_hash, build_rows, bloom,
                  evalLog, insertLog, hash_tbl >>

\* the level assertion is missing
DcheckFails_Never(keeps_dchecks, lvl) == FALSE

\* DCHECK_EQ(ctx->level(), 0): a failing DCHECK aborts the process in a build
\* that keeps DCHECKs; a release build compiles the check out.
DcheckFails(keeps_dchecks, lvl) == keeps_dchecks /\ lvl # 0

\* if (build_filters) { DCHECK_EQ(ctx->level(), 0); for (... filters_) ... }
BuildFilters ==
  /\ pc = "filters"
  /\ IF BuildFiltersEnabled(build_filters)
     THEN IF DcheckFails(dchecks, level)
          THEN /\ pc' = "aborted"
               /\ UNCHANGED << bloom, insertLog >>
          ELSE LET r == FilterLoop(1, build_row, bloom, insertLog)
               IN  /\ bloom' = r.bloom
                   /\ insertLog' = r.log
                   /\ pc' = "route"
     ELSE /\ pc' = "route"
          /\ UNCHANGED << bloom, insertLog >>
  /\ UNCHANGED << config, input, base, build_filters, i, cur_hash, build_rows,
                  null_rows, result, evalLog, appendLog, hash_tbl, null_hash_tbl >>

\* Pick the partition from the cached hash and append the row to its stream
AppendToPartition ==
  /\ pc = "route"
  /\ LET hash == cur_hash
         partition_idx == PartitionIdx(hash)
     IN  \E fast \in AddRowOutcomes, slow \in StreamFullOutcomes :
           LET a == AppendRow(build_rows[partition_idx], build_row, fast, slow)
               partition == PartitionAfterAppend(
                              Partition(build_rows[partition_idx],
                                        hash_tbl[partition_idx]), a.stream)
           IN  /\ build_rows' = [build_rows EXCEPT ![partition_idx] = partition.build_rows]
               /\ hash_tbl' = [hash_tbl EXCEPT ![partition_idx] = partition.hash_tbl]
               /\ appendLog' = [row |-> build_row, status |-> a.status,
                                calls |-> a.calls]
               /\ IF ReturnIfError(a.status)
                  THEN /\ pc' = "idle" /\ result' = a.status /\ i' = i
                  ELSE /\ pc' = "loop" /\ result' = result /\ i' = i + 1
  /\ UNCHANGED << config, input, base, build_filters, cur_hash, null_rows, bloom,
                  evalLog, insertLog, null_hash_tbl >>

Next ==
  \/ \E batch \in Batches, bf \in BOOLEAN : ProcessBuildBatch(batch, bf)
  \/ EvalRow
  \/ ReturnOK
  \/ NullKeyRow
  \/ BuildFilters
  \/ AppendToPartition

Spec == Init /\ [][Next]_vars

\* ------------------------------------------------ Partition::InsertBatch
PrefetchModes == {"NONE", "HT_BUCKET"}
InsertBatches == UNION { [1 .. n -> RowKinds] : n \in 0 .. MaxInsertRows }
\* RowIdx vectors for a batch of n rows: the rows of one stream, apart from
\* their positions in the batch
IndexVectors(n) == { [k \in 1 .. n |-> first + 2 * (k - 1)] : first \in {10} }

\* the Partition InsertBatch is called on
ThisPartition == 0

\* batch->num_rows()
num_rows == Len(insert_batch)

\* FOREACH_ROW_LIMIT(batch, start, limit, it): the row after the last one visited
RowLimitEnd(start, limit, n) == IF start + limit < n THEN start + limit ELSE n
IterEnd == RowLimitEnd(prefetch_group_row, prefetch_size, num_rows)

\* batch_iter.Get(): rows are numbered from 0 as in the source
RowAt(k) == insert_batch[k + 1]

Event(op, row, idx, ok) == [op |-> op, row |-> row, idx |-> idx, ok |-> ok]

\* prefetching whatever the mode
ShouldPrefetch_Always(mode) == TRUE

\* if (prefetch_mode != TPrefetchMode::NONE)
ShouldPrefetch(mode) == mode # "NONE"

\* the write phase keeps the slot when the key is NULL
WritePhaseStep_NullKeepsSlot(c, row, k, mode) ==
  LET ev == CacheEvalAndHashBuild(c, row, k)
  IN  [cache |-> IF ev.ok THEN CacheNextRow(ev.cache) ELSE CacheSetRowNull(ev.cache),
       ok |-> ev.ok,
       prefetch |-> ev.ok /\ ShouldPrefetch(mode)]

\* the write phase never moves to the next slot
WritePhaseStep_NoNextRow(c, row, k, mode) ==
  LET ev == CacheEvalAndHashBuild(c, row, k)
  IN  [cache |-> IF ev.ok THEN ev.cache ELSE CacheSetRowNull(ev.cache),
       ok |-> ev.ok,
       prefetch |-> ev.ok /\ ShouldPrefetch(mode)]

\* Body of the first FOREACH_ROW_LIMIT for batch row k: evaluate and hash,
\* prefetch or mark the slot NULL, NextRow
WritePhaseStep(c, row, k, mode) ==
  LET ev == CacheEvalAndHashBuild(c, row, k)
  IN  [cache |-> CacheNextRow(IF ev.ok THEN ev.cache ELSE CacheSetRowNull(ev.cache)),
       ok |-> ev.ok,
       prefetch |-> ev.ok /\ ShouldPrefetch(mode)]

\* the index is taken relative to the start of the prefetch group
RowIdxAt_GroupRelative(row_indices, cur, group) == row_indices[cur - group + 1]

\* row_indices[cur_row]
RowIdxAt(row_indices, cur, group) == row_indices[cur + 1]

\* a failed Insert does not end the call
ReadPhaseStep_IgnoresFailure(c, tbl, row_idx, capacity) ==
  IF CacheIsRowNull(c)
  THEN [failed |-> FALSE, attempted |-> FALSE, ok |-> TRUE, tbl |-> tbl,
        cache |-> CacheNextRow(c)]
  ELSE LET ins == HashTableInsert(tbl, CurExprValuesHash(c), row_idx, capacity)
       IN  [failed |-> FALSE, attempted |-> TRUE, ok |-> ins.ok, tbl |-> ins.tbl,
            cache |-> CacheNextRow(c)]

\* Body of the second FOREACH_ROW_LIMIT: Insert unless the slot is NULL, return
\* false when Insert fails, else NextRow
ReadPhaseStep(c, tbl, row_idx, capacity) ==
  IF CacheIsRowNull(c)
  THEN [failed |-> FALSE, attempted |-> FALSE, ok |-> TRUE, tbl |-> tbl,
        cache |-> CacheNextRow(c)]
  ELSE LET ins == HashTableInsert(tbl, CurExprValuesHash(c), row_idx, capacity)
       IN  IF ~ins.ok
           THEN [failed |-> TRUE, attempted |-> TRUE, ok |-> FALSE, tbl |-> ins.tbl,
                 cache |-> c]
           ELSE [failed |-> FALSE, attempted |-> TRUE, ok |-> TRUE, tbl |-> ins.tbl,
                 cache |-> CacheNextRow(c)]

\* the outer loop steps by one row
NextGroup_ByOne(group, size) == group + 1

\* prefetch_group_row += prefetch_size
NextGroup(group, size) == group + size

\* ProcessBuildBatch is not running: the builder before any batch, no filters
BuildIdle ==
  /\ null_aware = FALSE
  /\ has_bloom = [f \in FilterIds |-> FALSE]
  /\ level = 0
  /\ input = << >>
  /\ base = 0
  /\ build_filters = FALSE
  /\ i = 0
  /\ pc = "idle"
  /\ cur_hash = Hash32(0, 0)
  /\ build_rows = [p \in PartitionIds |-> << >>]
  /\ null_rows = << >>
  /\ bloom = [f \in FilterIds |-> {}]
  /\ result = "none"
  /\ evalLog = << >>
  /\ insertLog = [f \in FilterIds |-> << >>]
  /\ appendLog = [row |-> 0, status |-> OK, calls |-> << >>]
  /\ dchecks = TRUE

\* A partition about to be built: its hash table exists and is empty
InitInsert ==
  /\ BuildIdle
  /\ hash_tbl = [p \in PartitionIds |-> IF p = ThisPartition THEN EmptyTable ELSE NoTable]
  /\ null_hash_tbl = NoTable
  /\ prefetch_mode = "NONE"
  /\ prefetch_size \in 1 .. MaxCapacity
  /\ ht_capacity \in 0 .. MaxInsertRows
  /\ insert_batch = << >>
  /\ indices = << >>
  /\ insert_pc = "idle"
  /\ prefetch_group_row = 0
  /\ cur_row = 0
  /\ batch_iter = 0
  /\ expr_vals_cache = NewCache(prefetch_size)
  /\ insert_ret = "none"
  /\ insert_log = << >>

insert_config == << build_vars, null_hash_tbl, prefetch_size, ht_capacity >>

\* Entry of InsertBatch(prefetch_mode, ht_ctx, batch, indices), up to the
\* initialisation of the outer loop
InsertBatch(b, row_indices, mode) ==
  /\ insert_pc = "idle"
  /\ insert_ret = "none"
  /\ insert_batch' = b
  /\ indices' = row_indices
  /\ prefetch_mode' = mode
  /\ prefetch_group_row' = 0
  /\ insert_pc' = "group"
  /\ UNCHANGED << insert_config, hash_tbl, cur_row, batch_iter, expr_vals_cache,
                  insert_ret, insert_log >>

\* The outer loop has a next group: reset the cache, start the write phase
StartGroup ==
  /\ insert_pc = "group"
  /\ prefetch_group_row < num_rows
  /\ cur_row' = prefetch_group_row
  /\ expr_vals_cache' = CacheReset(expr_vals_cache)
  /\ batch_iter' = prefetch_group_row
  /\ insert_log' = Append(insert_log, Event("Reset", prefetch_group_row, 0 - 1, TRUE))
  /\ insert_pc' = "write"
  /\ UNCHANGED << insert_config, hash_tbl, prefetch_mode, insert_batch, indices,
                  prefetch_group_row, insert_ret >>

\* The outer loop is over: return true
ReturnTrue ==
  /\ insert_pc = "group"
  /\ prefetch_group_row >= num_rows
  /\ insert_ret' = TRUE
  /\ insert_pc' = "done"
  /\ UNCHANGED << insert_config, hash_tbl, prefetch_mode, insert_batch, indices,
                  prefetch_group_row, cur_row, batch_iter, expr_vals_cache,
                  insert_log >>

\* One row of the write phase
WriteRow ==
  /\ insert_pc = "write"
  /\ batch_iter < IterEnd
  /\ LET st == WritePhaseStep(expr_vals_cache, RowAt(batch_iter), batch_iter,
                              prefetch_mode)
     IN  /\ expr_vals_cache' = st.cache
         /\ insert_log' =
              insert_log \o << Event("Eval", batch_iter, 0 - 1, st.ok) >>
                \o (IF st.prefetch
                    THEN << Event("PrefetchBucket", batch_iter, 0 - 1, TRUE) >>
                    ELSE << >>)
  /\ batch_iter' = batch_iter + 1
  /\ UNCHANGED << insert_config, hash_tbl, prefetch_mode, insert_batch, indices,
                  insert_pc, prefetch_group_row, cur_row, insert_ret >>

\* The write phase is over: ResetForRead, start the read phase at cur_row
StartRead ==
  /\ insert_pc = "write"
  /\ batch_iter >= IterEnd
  /\ expr_vals_cache' = CacheResetForRead(expr_vals_cache)
  /\ batch_iter' = cur_row
  /\ insert_log' = Append(insert_log, Event("ResetForRead", cur_row, 0 - 1, TRUE))
  /\ insert_pc' = "read"
  /\ UNCHANGED << insert_config, hash_tbl, prefetch_mode, insert_batch, indices,
                  prefetch_group_row, cur_row, insert_ret >>

\* One row of the read phase
ReadRow ==
  /\ insert_pc = "read"
  /\ batch_iter < IterEnd
  /\ LET row_idx == RowIdxAt(indices, cur_row, prefetch_group_row)
         st == ReadPhaseStep(expr_vals_cache, hash_tbl[ThisPartition], row_idx,
                             ht_capacity)
     IN  /\ hash_tbl' = [hash_tbl EXCEPT ![ThisPartition] = st.tbl]
         /\ expr_vals_cache' = st.cache
         /\ insert_log' =
              insert_log \o << Event("Read", batch_iter, cur_row, TRUE) >>
                \o (IF st.attempted
                    THEN << Event("Insert", batch_iter, cur_row, st.ok) >>
                    ELSE << >>)
         /\ IF st.failed
            THEN /\ insert_ret' = FALSE
                 /\ insert_pc' = "done"
                 /\ UNCHANGED << cur_row, batch_iter >>
            ELSE /\ cur_row' = cur_row + 1
                 /\ batch_iter' = batch_iter + 1
                 /\ UNCHANGED << insert_ret, insert_pc >>
  /\ UNCHANGED << insert_config, prefetch_mode, insert_batch, indices,
                  prefetch_group_row >>

\* The read phase is over: step the outer loop
EndGroup ==
  /\ insert_pc = "read"
  /\ batch_iter >= IterEnd
  /\ prefetch_group_row' = NextGroup(prefetch_group_row, prefetch_size)
  /\ insert_pc' = "group"
  /\ UNCHANGED << insert_config, hash_tbl, prefetch_mode, insert_batch, indices,
                  cur_row, batch_iter, expr_vals_cache, insert_ret, insert_log >>

NextInsert ==
  \/ \E b \in InsertBatches, mode \in PrefetchModes :
       \E row_indices \in IndexVectors(Len(b)) : InsertBatch(b, row_indices, mode)
  \/ StartGroup
  \/ ReturnTrue
  \/ WriteRow
  \/ StartRead
  \/ ReadRow
  \/ EndGroup

SpecInsert == InitInsert /\ [][NextInsert]_vars

\* The steps of InsertBatch once it has been called
InsertBatchSteps == StartGroup \/ ReturnTrue \/ WriteRow \/ StartRead \/ ReadRow \/ EndGroup

\* InsertBatch runs on one thread without blocking: once called, a step of it
\* that can be taken is taken
FairSpecInsert == SpecInsert /\ WF_vars(InsertBatchSteps)

\* ----------------------------------------------------------- properties
Range(seq) == { seq[k] : k \in 1 .. Len(seq) }
Count(seq, x) == Cardinality({ k \in 1 .. Len(seq) : seq[k] = x })
Increasing(seq) == \A a, b \in 1 .. Len(seq) : a < b => seq[a] < seq[b]

\* rows the loop has finished with, over all calls
Done == base + i
RowIds == 1 .. Len(input)
BatchIds == (base + 1) .. Len(input)
IsNullKey(id) == input[id].null
NonNullKey(id) == ~input[id].null

\* number of rows held by the hash partition streams
RowsInPartitions ==
  Cardinality(UNION { { << p, k >> : k \in 1 .. Len(build_rows[p]) } : p \in PartitionIds })
CountInPartitions(id) ==
  Cardinality({ pk \in UNION { { << p, k >> : k \in 1 .. Len(build_rows[p]) }
                               : p \in PartitionIds }
                : build_rows[pk[1]][pk[2]] = id })
\* the top NUM_PARTITIONING_BITS bits of the 32-bit hash of the row's own key
TopBitsOfKeyHash(id) == HashRow(input[id].key).hi \div Pow2(16 - NUM_PARTITIONING_BITS)

Returned == pc = "idle" /\ result # "none"
Failed == Returned /\ result # OK

\* C1: every finished non-NULL-key row is in exactly one hash partition stream,
\* the one whose index is the top B bits of that row's own key hash; the hash
\* read when the partition is picked is the one of the row being appended, and
\* the index lies in [0, 2^B).
C1_PartitionIsTopBitsOfOwnHash ==
  /\ DOMAIN build_rows = 0 .. (Pow2(NUM_PARTITIONING_BITS) - 1)
  /\ \A p \in PartitionIds : \A id \in Range(build_rows[p]) : p = TopBitsOfKeyHash(id)
  /\ \A id \in 1 .. Done : NonNullKey(id) => CountInPartitions(id) = 1
  /\ pc = "route" =>
       /\ cur_hash = HashRow(input[build_row].key)
       /\ PartitionIdx(cur_hash) \in 0 .. (Pow2(NUM_PARTITIONING_BITS) - 1)

\* C1 witness: one successful batch put two rows with different hashes, the
\* second right after the first, into two different partitions.
C1_Witness ==
  /\ Returned /\ result = OK
  /\ \E id \in BatchIds :
       /\ id + 1 \in BatchIds
       /\ NonNullKey(id) /\ NonNullKey(id + 1)
       /\ \E p, q \in PartitionIds :
            p # q /\ id \in Range(build_rows[p]) /\ id + 1 \in Range(build_rows[q])

\* C2 as stated: after successful calls the streams together hold as many rows
\* as were handed in.
C2_StreamsHoldEveryRow ==
  (Returned /\ result = OK) => RowsInPartitions + Len(null_rows) = Len(input)

\* NULL-key rows handed in while there is no null-aware partition
DroppedRows == IF null_aware THEN {} ELSE { id \in RowIds : IsNullKey(id) }

\* C2 amended: after successful calls the streams together hold every row handed
\* in except the NULL-key rows dropped for want of a null-aware partition.
C2_StreamsHoldEveryKeptRow ==
  (Returned /\ result = OK) =>
    RowsInPartitions + Len(null_rows) = Len(input) - Cardinality(DroppedRows)

\* C2 witness: two successful calls, a NULL-key row dropped and another row kept.
C2_Witness ==
  /\ Returned /\ result = OK
  /\ base > 0 /\ Len(input) > base
  /\ DroppedRows # {}
  /\ RowsInPartitions > 0

\* C3: rows are evaluated in input order and every stream holds its rows in
\* input order.
C3_InputOrderKept ==
  /\ \A k \in 1 .. Len(evalLog) : evalLog[k] = k
  /\ \A p \in PartitionIds : Increasing(build_rows[p])
  /\ Increasing(null_rows)

\* C3 witness: one stream holds three rows, the first from an earlier batch and
\* the other two from the current one.
C3_Witness ==
  /\ Returned /\ result = OK
  /\ base = 1
  /\ \E p \in PartitionIds : Len(build_rows[p]) = 3

\* C4: a NULL-key row is never in a hash partition stream; once the loop has
\* finished with it, it is in the null-aware stream (once) exactly if there is
\* a null-aware partition.
C4_NullKeyRouting ==
  \A id \in RowIds :
    IsNullKey(id) =>
      /\ CountInPartitions(id) = 0
      /\ Count(null_rows, id) = IF null_aware /\ id <= Done THEN 1 ELSE 0

\* C4 witness: without a null-aware partition a batch with a NULL-key row and
\* another row has been processed; the NULL-key row is in no stream.
C4_Witness ==
  /\ Returned /\ result = OK
  /\ ~null_aware
  /\ \E id \in BatchIds : IsNullKey(id)
  /\ RowsInPartitions > 0

\* the hash filters_[f] inserts for a row
FilterHashOf(f, id) == GetHashValue(input[id].col + f, DefaultHashSeed)

\* rows of the current batch that have been through the filter step
PastFilters == { id \in BatchIds : id <= Done \/ (id = Done + 1 /\ pc = "route") }

\* C5: in a call with build_filters at level 0, every bloom filter that exists
\* holds the filter hash of every non-NULL-key row processed so far, whether or
\* not an earlier FilterContext lacks its bloom filter.
C5_BloomHoldsRowHashes ==
  (build_filters /\ level = 0) =>
    \A f \in FilterIds : has_bloom[f] =>
      \A id \in PastFilters : NonNullKey(id) => FilterHashOf(f, id) \in bloom[f]

\* C5 witness: the first FilterContext has no bloom filter, a later one has,
\* and a batch with a non-NULL-key row has been processed with build_filters.
C5_Witness ==
  /\ Returned /\ result = OK
  /\ build_filters /\ level = 0
  /\ ~has_bloom[1]
  /\ \E f \in FilterIds : has_bloom[f] /\ bloom[f] # {}
  /\ \E id \in BatchIds : NonNullKey(id)

InBatch(id) == id > base
BatchRows == [k \in 1 .. (Len(input) - base) |-> base + k]

\* C6: no bloom filter Insert is ever made for a NULL-key row; after a
\* successful call with build_filters every bloom filter that exists got one
\* Insert for each non-NULL-key row of the batch, in order, and no other.
C6_NoInsertForNullKey ==
  /\ \A f \in FilterIds : \A id \in Range(insertLog[f]) : NonNullKey(id)
  /\ (Returned /\ result = OK /\ build_filters) =>
       \A f \in FilterIds : has_bloom[f] =>
         SelectSeq(insertLog[f], InBatch) = SelectSeq(BatchRows, NonNullKey)

\* C6 witness: a batch with a NULL-key row and another row has been processed
\* with build_filters and a bloom filter got an Insert.
C6_Witness ==
  /\ Returned /\ result = OK
  /\ build_filters
  /\ \E id \in BatchIds : IsNullKey(id)
  /\ \E f \in FilterIds : has_bloom[f] /\ Len(SelectSeq(insertLog[f], InBatch)) > 0

\* C7: no step of a call made with build_filters = false changes a bloom filter.
C7_NoFiltersNoChange ==
  [][ ~build_filters' => (bloom' = bloom /\ insertLog' = insertLog) ]_vars

\* C7 witness: a call without build_filters has appended a non-NULL-key row
\* while a bloom filter filled by an earlier call is in place.
C7_Witness ==
  /\ Returned
  /\ ~build_filters
  /\ \E f \in FilterIds : has_bloom[f] /\ bloom[f] # {}
  /\ \E id \in BatchIds : NonNullKey(id) /\ CountInPartitions(id) = 1

\* every stream, hash partitions and null-aware
CountInStreams(id) == CountInPartitions(id) + Count(null_rows, id)

\* C8: when AppendRow fails on row k, the call has returned that status, k is
\* the last row evaluated, no row from k on is in a stream, no row after k has
\* reached a bloom filter, and the rows before k are still in their streams.
C8_ErrorStopsTheBatch ==
  appendLog.status # OK =>
    LET k == appendLog.row
    IN  /\ Returned /\ result = appendLog.status
        /\ Len(evalLog) = k /\ evalLog[k] = k
        /\ \A id \in RowIds : id >= k => CountInStreams(id) = 0
        /\ \A f \in FilterIds : \A id \in Range(insertLog[f]) : id <= k
        /\ \A id \in 1 .. (k - 1) :
             CountInStreams(id) = IF id \in DroppedRows THEN 0 ELSE 1

\* C8 witness: AppendRow failed on a row that has an appended row before it and
\* a row of the same batch after it.
C8_Witness ==
  /\ Failed
  /\ appendLog.row > 1
  /\ CountInStreams(appendLog.row - 1) = 1
  /\ appendLog.row < Len(input)

LastCall == appendLog.calls[Len(appendLog.calls)]

\* C9 as stated: every error of ProcessBuildBatch is one AppendRowStreamFull
\* returned.
C9_ErrorsOnlyFromSlowPath ==
  Failed =>
    /\ appendLog.calls # << >>
    /\ LastCall.fn = "AppendRowStreamFull"
    /\ LastCall.status = result

\* C9 amended: every error of ProcessBuildBatch is the status of the AppendRow of
\* the row it stopped at, which is either the error status the fast-path AddRow
\* set or the error AppendRowStreamFull returned; evaluating a key never fails.
C9_ErrorsOnlyFromAppendRow ==
  /\ Failed =>
       /\ appendLog.calls # << >>
       /\ appendLog.row = Done + 1
       /\ LastCall.status = result
       /\ ~LastCall.ret
       /\ LastCall.fn \in {"AddRow", "AppendRowStreamFull"}
  /\ pc \in {"null", "filters", "route"} => result = "none"

\* C9 witness: a call failed with the error status that AddRow set.
C9_Witness ==
  /\ Failed
  /\ LastCall.fn = "AddRow"

\* C10: AppendRow calls AddRow once, first; on true it returns OK, on false with
\* an error status it returns that status, in both cases without the slow path;
\* on false with status OK it calls AppendRowStreamFull once and returns its
\* result.
C10_OneFastThenAtMostOneSlow ==
  appendLog.calls # << >> =>
    LET c == appendLog.calls
    IN  /\ c[1].fn = "AddRow"
        /\ \A k \in 2 .. Len(c) : c[k].fn # "AddRow"
        /\ c[1].ret => (Len(c) = 1 /\ appendLog.status = OK)
        /\ (~c[1].ret /\ c[1].status # OK) =>
             (Len(c) = 1 /\ appendLog.status = c[1].status)
        /\ (~c[1].ret /\ c[1].status = OK) =>
             /\ Len(c) = 2
             /\ c[2].fn = "AppendRowStreamFull"
             /\ appendLog.status = c[2].status

\* C10 witness: a page was full and the slow path appended the row, once.
C10_Witness ==
  /\ Len(appendLog.calls) = 2
  /\ appendLog.status = OK
  /\ CountInStreams(appendLog.row) = 1

\* C11: AppendRow is all or nothing: after it returned OK the row is in the
\* streams exactly once, after it returned an error the row is in no stream.
C11_AppendRowAllOrNothing ==
  appendLog.calls # << >> =>
    /\ appendLog.status = OK => CountInStreams(appendLog.row) = 1
    /\ appendLog.status # OK => CountInStreams(appendLog.row) = 0

\* C11 witness: the page was full, the slow path failed, and the row is in no
\* stream while an earlier row is.
C11_Witness ==
  /\ Len(appendLog.calls) = 2
  /\ appendLog.status # OK
  /\ CountInStreams(appendLog.row) = 0
  /\ \E id \in RowIds : CountInStreams(id) = 1

\* C15: no step of ProcessBuildBatch creates or changes a hash table: while
\* batches are ingested every partition, the null-aware one too, has none.
C15_NoHashTableDuringIngest ==
  /\ \A p \in PartitionIds : hash_tbl[p] = NoTable
  /\ null_hash_tbl = NoTable

\* C15 witness: two batches were ingested, rows sit in a hash partition stream
\* and in the null-aware stream.
C15_Witness ==
  /\ Returned /\ result = OK
  /\ base > 0 /\ Len(input) > base
  /\ RowsInPartitions > 0
  /\ Len(null_rows) > 0

C20_FiltersCoverStreamedRows ==
  build_filters =>
    \A id \in BatchIds : CountInPartitions(id) > 0 =>
      \A f \in FilterIds : has_bloom[f] =>
        /\ FilterHashOf(f, id) \in bloom[f]
        /\ Count(insertLog[f], id) = 1

\* C20 witness: AppendRow failed on a row whose hash is already in a bloom
\* filter; the row is in no stream.
C20_Witness ==
  /\ Failed
  /\ build_filters
  /\ appendLog.row \in BatchIds
  /\ NonNullKey(appendLog.row)
  /\ CountInStreams(appendLog.row) = 0
  /\ \E f \in FilterIds :
       /\ has_bloom[f]
       /\ FilterHashOf(f, appendLog.row) \in bloom[f]
       /\ Count(insertLog[f], appendLog.row) = 1

\* ------------------------------------------- properties of InsertBatch
InsertDone == insert_pc = "done"
ReturnedTrue == InsertDone /\ insert_ret = TRUE
ReturnedFalse == InsertDone /\ insert_ret = FALSE
Entries == hash_tbl[ThisPartition].entries
LogIdx == 1 .. Len(insert_log)
KeyNotNull(k) == ~RowAt(k).null
\* the rows 0 .. n-1 whose key is not NULL, in order
NonNullRows(n) == SelectSeq([j \in 1 .. n |-> j - 1], KeyNotNull)
\* the entry the hash table should get for batch row k
ExpectedEntry(k) == [hash |-> HashRow(RowAt(k).key), idx |-> indices[k + 1]]
ExpectedEntries(n) ==
  LET ks == NonNullRows(n) IN [j \in 1 .. Len(ks) |-> ExpectedEntry(ks[j])]
\* first row of the prefetch group of row k
GroupOf(k) == (k \div prefetch_size) * prefetch_size
GroupEnd(k) ==
  IF GroupOf(k) + prefetch_size < num_rows THEN GroupOf(k) + prefetch_size ELSE num_rows
\* rows of the events with the given op, in log order
IsEval(e) == e.op = "Eval"
IsRead(e) == e.op = "Read"
IsReset(e) == e.op = "Reset"
FailedInserts == { q \in LogIdx : insert_log[q].op = "Insert" /\ ~insert_log[q].ok }

\* C12: when InsertBatch returned true the hash table holds, for each row
\* with a key and for no other, one entry with that row's hash and the RowIdx
\* at that row's position.
C12_TableHoldsExactlyTheKeyedRows ==
  ReturnedTrue => Entries = ExpectedEntries(num_rows)

\* C12 witness: a batch of several groups, the last one short, with a NULL-key
\* row and rows with keys in a later group, was inserted.
C12_Witness ==
  /\ ReturnedTrue
  /\ num_rows > prefetch_size /\ prefetch_size > 1
  /\ num_rows % prefetch_size # 0
  /\ \E k \in 0 .. (num_rows - 1) : ~KeyNotNull(k)
  /\ \E k \in prefetch_size .. (num_rows - 1) : KeyNotNull(k)
  /\ Len(Entries) >= 2

\* C13: a failed Insert is the last thing InsertBatch does: it has returned
\* false, the rows with keys before the failing row k are in the table, no
\* row from k on is; and InsertBatch returns false only after a failed Insert.
C13_FailedInsertEndsTheCall ==
  /\ \A q \in FailedInserts :
       /\ ReturnedFalse
       /\ q = Len(insert_log)
       /\ Entries = ExpectedEntries(insert_log[q].row)
       /\ \A t \in LogIdx :
            (insert_log[t].op = "Insert" /\ t # q) => insert_log[t].row < insert_log[q].row
  /\ ReturnedFalse => FailedInserts # {}

\* C13 witness: Insert failed on a row that has an inserted row before it, a
\* row of its group after it and a later group.
C13_Witness ==
  /\ ReturnedFalse
  /\ Len(Entries) > 0
  /\ batch_iter + 1 < IterEnd
  /\ IterEnd < num_rows

\* rows of the current group the write phase has been through
WrittenRows ==
  IF insert_pc = "write" THEN prefetch_group_row .. (batch_iter - 1)
  ELSE IF insert_pc = "read" THEN prefetch_group_row .. (IterEnd - 1)
  ELSE {}

\* C14: a NULL-key row is never prefetched and never passed to Insert, and it
\* takes one cache slot: in a group, row k sits in slot k - g, whose NULL flag
\* is the row's and whose hash is the row's when it has a key, and both
\* cursors count the NULL-key rows too.
C14_NullKeyTakesASlotOnly ==
  /\ \A q \in LogIdx :
       insert_log[q].op \in {"Insert", "PrefetchBucket"} => KeyNotNull(insert_log[q].row)
  /\ \A k \in WrittenRows :
       LET sl == k - prefetch_group_row
       IN  /\ expr_vals_cache.row[sl] = k
           /\ expr_vals_cache.null[sl] = RowAt(k).null
           /\ KeyNotNull(k) => expr_vals_cache.hash[sl] = HashRow(RowAt(k).key)
  /\ insert_pc = "write" => expr_vals_cache.w = batch_iter - prefetch_group_row
  /\ insert_pc = "read" =>
       /\ expr_vals_cache.w = IterEnd - prefetch_group_row
       /\ expr_vals_cache.r = batch_iter - prefetch_group_row

\* C14 witness: in one group a NULL-key row was skipped and the row after it,
\* which has a key, was inserted.
C14_Witness ==
  /\ insert_pc = "read"
  /\ \E k \in WrittenRows :
       /\ ~KeyNotNull(k)
       /\ k + 1 \in WrittenRows
       /\ KeyNotNull(k + 1)
       /\ \E q \in LogIdx :
            insert_log[q] = Event("Insert", k + 1, k + 1, TRUE)

\* the last Reset before log position q is the one of row k's group
ResetBefore(q) ==
  LET rs == { t \in 1 .. (q - 1) : insert_log[t].op = "Reset" }
  IN  IF rs = {} THEN 0 - 1
      ELSE insert_log[CHOOSE t \in rs : \A u \in rs : u <= t].row

\* The groups InsertBatch works through: rows are evaluated and read in the
\* order 0, 1, 2, ..., each inside the group that starts at a multiple of the
\* cache capacity; no row or index from num_rows on is touched; after a return
\* of true every row was evaluated once and read once in ceil(N / C) groups;
\* an empty batch returns true having touched nothing.
GroupsCoverTheBatch ==
  /\ \A j \in 1 .. Len(SelectSeq(insert_log, IsEval)) :
       SelectSeq(insert_log, IsEval)[j].row = j - 1
  /\ \A j \in 1 .. Len(SelectSeq(insert_log, IsRead)) :
       /\ SelectSeq(insert_log, IsRead)[j].row = j - 1
       /\ SelectSeq(insert_log, IsRead)[j].idx = j - 1
  /\ \A j \in 1 .. Len(SelectSeq(insert_log, IsReset)) :
       SelectSeq(insert_log, IsReset)[j].row = (j - 1) * prefetch_size
  /\ \A q \in LogIdx :
       /\ insert_log[q].row < num_rows
       /\ insert_log[q].idx < num_rows
       /\ insert_log[q].op \in {"Eval", "Read"} =>
            ResetBefore(q) = GroupOf(insert_log[q].row)
  /\ ReturnedTrue =>
       /\ Len(SelectSeq(insert_log, IsEval)) = num_rows
       /\ Len(SelectSeq(insert_log, IsRead)) = num_rows
       /\ Len(SelectSeq(insert_log, IsReset)) =
            (num_rows + prefetch_size - 1) \div prefetch_size
  /\ (InsertDone /\ num_rows = 0) =>
       /\ insert_ret = TRUE
       /\ insert_log = << >>
       /\ expr_vals_cache = NewCache(prefetch_size)
       /\ Entries = << >>

\* C16: a call of InsertBatch returns, and it works through the batch in ceil(N / C)
\* contiguous groups without gap or overlap (GroupsCoverTheBatch).
C16_TerminatesGroupByGroup ==
  /\ (insert_pc # "idle") ~> InsertDone
  /\ []GroupsCoverTheBatch

\* C16 witness: a batch whose size is not a multiple of the capacity was
\* inserted in more than one group.
C16_Witness ==
  /\ ReturnedTrue
  /\ prefetch_size > 1
  /\ num_rows > prefetch_size
  /\ num_rows % prefetch_size # 0

\* C17: the cache cursors satisfy 0 <= r <= w <= C; the write phase has r = 0
\* and w rows written, the read phase keeps w and reads only below it, and the
\* slot the read phase stands at was filled in this group by the row it reads.
C17_CursorsStayOrdered ==
  LET c == expr_vals_cache
  IN  /\ 0 <= c.r /\ c.r <= c.w /\ c.w <= prefetch_size
      /\ insert_pc = "write" =>
           /\ ~c.reading /\ c.r = 0
           /\ c.w = batch_iter - cur_row
      /\ insert_pc = "read" =>
           /\ c.reading
           /\ c.w = IterEnd - prefetch_group_row
           /\ batch_iter < IterEnd => (c.r < c.w /\ c.row[c.r] = batch_iter)
      /\ (insert_log # << >> /\ insert_log[Len(insert_log)].op = "Reset") =>
           (c.w = 0 /\ c.r = 0)
      /\ (insert_log # << >> /\ insert_log[Len(insert_log)].op = "ResetForRead") =>
           c.r = 0

\* C17 witness: the read phase of a second group stands past its first slot.
C17_Witness ==
  /\ insert_pc = "read"
  /\ prefetch_group_row > 0
  /\ expr_vals_cache.r > 0
  /\ expr_vals_cache.r < expr_vals_cache.w

PositionsOf(op, k) == { q \in LogIdx : insert_log[q].op = op /\ insert_log[q].row = k }
NumKeyed == Len(NonNullRows(num_rows))

\* C18: before any Insert of a group every row of the group has been
\* evaluated and, unless the mode is NONE, every row of it with a key has been
\* prefetched; with mode NONE nothing is prefetched; and the table and the
\* return value are those that the batch, the indices and the capacity of the
\* table determine, whatever the mode.
C18_PrefetchPhaseBeforeInsertPhase ==
  /\ \A q \in LogIdx : insert_log[q].op = "Insert" =>
       \A j \in GroupOf(insert_log[q].row) .. (GroupEnd(insert_log[q].row) - 1) :
         /\ \E t \in PositionsOf("Eval", j) : t < q
         /\ (prefetch_mode # "NONE" /\ KeyNotNull(j)) =>
              \E t \in PositionsOf("PrefetchBucket", j) : t < q
  /\ prefetch_mode = "NONE" => \A q \in LogIdx : insert_log[q].op # "PrefetchBucket"
  /\ InsertDone =>
       /\ insert_ret = (NumKeyed <= ht_capacity)
       /\ Entries = SubSeq(ExpectedEntries(num_rows), 1,
                           IF NumKeyed <= ht_capacity THEN NumKeyed ELSE ht_capacity)

\* C18 witness: with prefetching on, a group of at least two rows with keys
\* was prefetched and then inserted.
C18_Witness ==
  /\ InsertDone
  /\ prefetch_mode # "NONE"
  /\ \E k \in 0 .. (num_rows - 2) :
       /\ GroupOf(k) = GroupOf(k + 1)
       /\ PositionsOf("PrefetchBucket", k) # {} /\ PositionsOf("PrefetchBucket", k + 1) # {}
       /\ \E q \in PositionsOf("Insert", k + 1) : insert_log[q].ok

====
